---- MODULE Spec2Model ----
(***************************************************************************)
(* Model of solarm-utils-rs, module zfs (src/src/zfs.rs) and its error     *)
(* type (src/src/lib.rs): the four request builders, the argument          *)
(* serializers create/clone/snapshot/list, the process boundary zfs() and  *)
(* the Dataset / Snapshot handles.                                         *)
(*                                                                         *)
(* A Rust String is a sequence of characters (one-character strings); the  *)
(* bytes captured from the child process are integers.  Option<T> is a     *)
(* tagged record, Result<T, E> likewise.                                   *)
(***************************************************************************)
EXTENDS Integers, Sequences, FiniteSets, TLC

VARIABLES
    builder,    \* the request builder the caller holds
    built,      \* what the last build() returned (NotBuilt before the first)
    handle,     \* the Dataset / Snapshot handle the caller holds, or None
    lastOp,     \* name of the last public operation that ran
    invoked,    \* the external-tool invocations made by the last operation
    proc,       \* what the child process did in that invocation, or None
    ret,        \* what the last operation returned to the caller
    lastWrite   \* history: key -> value of the last add_property for that key

vars == <<builder, built, handle, lastOp, invoked, proc, ret, lastWrite>>

---------------------------------------------------------------------------
(* Bounds of the model.                                                    *)

\* longest standard output (in bytes) the child process writes
MaxOut == 3
\* most list types one builder accumulates with add_list_option
MaxTypes == 2

---------------------------------------------------------------------------
(* Option, Result, strings.                                                *)

None == [tag |-> "None"]
Some(v) == [tag |-> "Some", val |-> v]

Ok(v) == [tag |-> "Ok", val |-> v]
Err(e) == [tag |-> "Err", err |-> e]

\* str::contains with a one-character pattern
Contains(s, c) == \E i \in 1..Len(s) : s[i] = c

\* format!("{}={}", key, value)
FormatKV(key, value) == key \o <<"=">> \o value

DigitChars == <<"0", "1", "2", "3", "4", "5", "6", "7", "8", "9">>

\* the decimal digits of a non-negative integer, most significant first
RECURSIVE Digits(_)
Digits(n) ==
    IF n < 10 THEN <<DigitChars[n + 1]>>
    ELSE Digits(n \div 10) \o <<DigitChars[(n % 10) + 1]>>

\* i32::to_string
I32ToString(n) == IF n < 0 THEN <<"-">> \o Digits(0 - n) ELSE Digits(n)

\* [String]::join(sep)
RECURSIVE Join(_, _)
Join(ss, sep) ==
    IF Len(ss) = 0 THEN <<>>
    ELSE IF Len(ss) = 1 THEN ss[1]
    ELSE ss[1] \o sep \o Join(Tail(ss), sep)

\* the command-line flags the serializers push
FlagP == <<"-", "p">>
FlagS == <<"-", "s">>
FlagB == <<"-", "b">>
FlagO == <<"-", "o">>
FlagV == <<"-", "V">>
FlagR == <<"-", "r">>
FlagD == <<"-", "d">>
FlagHp == <<"-", "H", "p">>
FlagT == <<"-", "t">>

---------------------------------------------------------------------------
(* Inputs the callers supply.                                              *)

\* dataset / snapshot names: one without and one with '@'
Names == { <<"a">>, <<"a", "@", "s">> }
PropKeys == { <<"k">>, <<"q">> }
PropVals == { <<"1">>, <<"2">> }
VolSizes == { <<"1", "G">> }
BlockSizes == { 512, -8 }
Depths == { <<"2">> }
Suffixes == { <<"s">>, <<"@">> }

---------------------------------------------------------------------------
(* ZfsBuilderError and crate::Error.                                       *)

UninitializedField(f) == [kind |-> "UninitializedField", field |-> f]
\* From<String> for ZfsBuilderError
ValidationError(msg) == [kind |-> "ValidationError", msg |-> msg]

IOError == [kind |-> "IOError"]
FromUtf8Error == [kind |-> "FromUtf8Error"]
ZFSError(text) == [kind |-> "ZFSError", text |-> text]
\* #[from] zfs::ZfsBuilderError
ZfsBuilderError(e) == [kind |-> "ZfsBuilderError", inner |-> e]

---------------------------------------------------------------------------
(* ZfsProperties: a HashMap<String, String>, a function on its key set.    *)

ZfsPropertiesDefault == << >>

HashMapInsertKeepOld(m, key, value) ==
    [k \in DOMAIN m \cup {key} |-> IF k \in DOMAIN m THEN m[k] ELSE value]

\* HashMap::insert: the entry for key is added or overwritten
HashMapInsert(m, key, value) ==
    [k \in DOMAIN m \cup {key} |-> IF k = key THEN value ELSE m[k]]

\* the orders in which a HashMap may hand out its keys
Orders(S) ==
    { o \in [1..Cardinality(S) -> S] : \A k \in S : \E i \in DOMAIN o : o[i] = k }

\* Into<Vec<String>> for ZfsProperties, iterating in the given order
ZfsPropertiesInto(m, order) ==
    [i \in 1..Len(order) |-> FormatKV(order[i], m[order[i]])]

\* self.properties after add_property(key, value)
AddPropertyTo(properties, key, value) ==
    IF properties.tag = "Some"
    THEN Some(HashMapInsert(properties.val, key, value))
    ELSE Some(HashMapInsert(ZfsPropertiesDefault, key, value))

---------------------------------------------------------------------------
(* CreateRequest and CreateRequestBuilder.  derive_builder keeps every     *)
(* builder field as an Option; build(&self) first calls the validate       *)
(* function named in build_fn, then takes each field in declaration order: *)
(* a clone of the value that was set, the default where #[builder(default)]*)
(* allows it, UninitializedFieldError otherwise.                           *)

CreateRequestBuilderDefault ==
    [kind |-> "create", name |-> None, properties |-> None, recursive |-> None,
     volsize |-> None, blocksize |-> None, sparse |-> None]

CreateRequestBuilderValidate(b) ==
    IF b.name.tag = "Some" /\ Contains(b.name.val, "@")
    THEN Err("Invalid dataset name")
    ELSE Ok("unit")

\* the fields of the CreateRequest that build() assembles
CreateRequestFields(b) ==
    IF b.name.tag = "None" THEN Err(UninitializedField("name"))
    ELSE Ok([kind |-> "create",
             name |-> b.name.val,
             properties |-> IF b.properties.tag = "Some" THEN b.properties.val
                            ELSE ZfsPropertiesDefault,
             recursive |-> IF b.recursive.tag = "Some" THEN b.recursive.val ELSE FALSE,
             volsize |-> IF b.volsize.tag = "Some" THEN Some(b.volsize.val) ELSE None,
             blocksize |-> IF b.blocksize.tag = "Some" THEN Some(b.blocksize.val) ELSE None,
             sparse |-> IF b.sparse.tag = "Some" THEN b.sparse.val ELSE FALSE])

CreateRequestBuilderBuildUnvalidated(b) == CreateRequestFields(b)

CreateRequestBuilderBuild(b) ==
    LET v == CreateRequestBuilderValidate(b)
    IN  IF v.tag = "Err" THEN Err(ValidationError(v.err)) ELSE CreateRequestFields(b)

---------------------------------------------------------------------------
(* CloneRequest and CloneRequestBuilder.                                   *)

CloneRequestBuilderDefault ==
    [kind |-> "clone", snapshot |-> None, target |-> None, create_parents |-> None,
     properties |-> None]

CloneRequestBuilderValidateTargetOnly(b) ==
    IF b.target.tag = "Some" /\ Contains(b.target.val, "@")
    THEN Err("Invalid target name")
    ELSE Ok("unit")

CloneRequestBuilderValidate(b) ==
    IF b.target.tag = "Some" /\ Contains(b.target.val, "@")
    THEN Err("Invalid target name")
    ELSE IF b.snapshot.tag = "Some" /\ ~Contains(b.snapshot.val, "@")
    THEN Err("Invalid snapshot name")
    ELSE Ok("unit")

CloneRequestFields(b) ==
    IF b.snapshot.tag = "None" THEN Err(UninitializedField("snapshot"))
    ELSE IF b.target.tag = "None" THEN Err(UninitializedField("target"))
    ELSE Ok([kind |-> "clone",
             snapshot |-> b.snapshot.val,
             target |-> b.target.val,
             create_parents |-> IF b.create_parents.tag = "Some"
                                THEN b.create_parents.val ELSE FALSE,
             properties |-> IF b.properties.tag = "Some" THEN b.properties.val
                            ELSE ZfsPropertiesDefault])

CloneRequestBuilderBuildPresenceFirst(b) ==
    LET v == CloneRequestBuilderValidate(b)
        f == CloneRequestFields(b)
    IN  IF f.tag = "Err" THEN f
        ELSE IF v.tag = "Err" THEN Err(ValidationError(v.err)) ELSE f

CloneRequestBuilderBuild(b) ==
    LET v == CloneRequestBuilderValidate(b)
    IN  IF v.tag = "Err" THEN Err(ValidationError(v.err)) ELSE CloneRequestFields(b)

---------------------------------------------------------------------------
(* SnapshotRequest and SnapshotRequestBuilder.                             *)

SnapshotRequestBuilderDefault ==
    [kind |-> "snapshot", snapshot |-> None, recursive |-> None, properties |-> None]

SnapshotRequestBuilderValidate(b) ==
    IF b.snapshot.tag = "Some" /\ ~Contains(b.snapshot.val, "@")
    THEN Err("Invalid snapshot name")
    ELSE Ok("unit")

SnapshotRequestFields(b) ==
    IF b.snapshot.tag = "None" THEN Err(UninitializedField("snapshot"))
    ELSE Ok([kind |-> "snapshot",
             snapshot |-> b.snapshot.val,
             recursive |-> IF b.recursive.tag = "Some" THEN b.recursive.val ELSE FALSE,
             properties |-> IF b.properties.tag = "Some" THEN b.properties.val
                            ELSE ZfsPropertiesDefault])

SnapshotRequestBuilderBuild(b) ==
    LET v == SnapshotRequestBuilderValidate(b)
    IN  IF v.tag = "Err" THEN Err(ValidationError(v.err)) ELSE SnapshotRequestFields(b)

---------------------------------------------------------------------------
(* ListRequest, ListRequestBuilder and ListType.                           *)

ListType == { "FileSystem", "Snapshot", "Volume", "Bookmark", "All" }

\* the list types callers pass to add_list_option
ListTypeInputs == { "Snapshot", "FileSystem" }

\* Into<String> for ListType
ListTypeInto(l) ==
    CASE l = "FileSystem" -> <<"f", "i", "l", "e", "s", "y", "s", "t", "e", "m">>
      [] l = "Snapshot" -> <<"s", "n", "a", "p", "s", "h", "o", "t">>
      [] l = "Volume" -> <<"v", "o", "l", "u", "m", "e">>
      [] l = "Bookmark" -> <<"b", "o", "o", "k", "m", "a", "r", "k">>
      [] l = "All" -> <<"a", "l", "l">>

ListRequestBuilderDefault ==
    [kind |-> "list", root |-> None, list_types |-> None, recursion_depth |-> None,
     recursive |-> None, properties |-> None]

\* no validate function and no required field: build() always succeeds
ListRequestBuilderBuild(b) ==
    Ok([kind |-> "list",
        root |-> IF b.root.tag = "Some" THEN Some(b.root.val) ELSE None,
        list_types |-> IF b.list_types.tag = "Some" THEN b.list_types.val ELSE << >>,
        recursion_depth |-> IF b.recursion_depth.tag = "Some"
                            THEN Some(b.recursion_depth.val) ELSE None,
        recursive |-> IF b.recursive.tag = "Some" THEN b.recursive.val ELSE FALSE,
        properties |-> IF b.properties.tag = "Some" THEN b.properties.val
                       ELSE ZfsPropertiesDefault])

---------------------------------------------------------------------------
(* build() of whichever builder the caller holds.                          *)

BuilderDefault(kind) ==
    CASE kind = "create" -> CreateRequestBuilderDefault
      [] kind = "clone" -> CloneRequestBuilderDefault
      [] kind = "snapshot" -> SnapshotRequestBuilderDefault
      [] kind = "list" -> ListRequestBuilderDefault

BuilderKinds == { "create", "clone", "snapshot", "list" }

BuildOf(b) ==
    CASE b.kind = "create" -> CreateRequestBuilderBuild(b)
      [] b.kind = "clone" -> CloneRequestBuilderBuild(b)
      [] b.kind = "snapshot" -> SnapshotRequestBuilderBuild(b)
      [] b.kind = "list" -> ListRequestBuilderBuild(b)

BuildSelfTaken(b) == BuilderDefault(b.kind)

\* build(&self): the builder is borrowed, every field it hands out is a clone
BuildSelf(b) == b

NotBuilt == [tag |-> "NotBuilt"]

NoRet == [tag |-> "NoRet"]

---------------------------------------------------------------------------
(* The builders' setters.  Each stores Some(value) in its own field and    *)
(* touches nothing else; add_property and add_list_option clone the        *)
(* collection, extend the clone and store it back.                         *)

\* what a setter leaves alone: requests already built, handles, past results
SetterFrame(op) ==
    /\ lastOp' = op
    /\ UNCHANGED <<built, handle, invoked, proc, ret>>

CreateRequestBuilder_name(v) ==
    /\ builder.kind = "create"
    /\ builder' = [builder EXCEPT !.name = Some(v)]
    /\ SetterFrame("builder.name")
    /\ UNCHANGED lastWrite

CreateRequestBuilder_recursive(v) ==
    /\ builder.kind = "create"
    /\ builder' = [builder EXCEPT !.recursive = Some(v)]
    /\ SetterFrame("builder.recursive")
    /\ UNCHANGED lastWrite

CreateRequestBuilder_volsize(v) ==
    /\ builder.kind = "create"
    /\ builder' = [builder EXCEPT !.volsize = Some(v)]
    /\ SetterFrame("builder.volsize")
    /\ UNCHANGED lastWrite

CreateRequestBuilder_blocksize(v) ==
    /\ builder.kind = "create"
    /\ builder' = [builder EXCEPT !.blocksize = Some(v)]
    /\ SetterFrame("builder.blocksize")
    /\ UNCHANGED lastWrite

CreateRequestBuilder_sparse(v) ==
    /\ builder.kind = "create"
    /\ builder' = [builder EXCEPT !.sparse = Some(v)]
    /\ SetterFrame("builder.sparse")
    /\ UNCHANGED lastWrite

CloneRequestBuilder_snapshot(v) ==
    /\ builder.kind = "clone"
    /\ builder' = [builder EXCEPT !.snapshot = Some(v)]
    /\ SetterFrame("builder.snapshot")
    /\ UNCHANGED lastWrite

CloneRequestBuilder_target(v) ==
    /\ builder.kind = "clone"
    /\ builder' = [builder EXCEPT !.target = Some(v)]
    /\ SetterFrame("builder.target")
    /\ UNCHANGED lastWrite

CloneRequestBuilder_create_parents(v) ==
    /\ builder.kind = "clone"
    /\ builder' = [builder EXCEPT !.create_parents = Some(v)]
    /\ SetterFrame("builder.create_parents")
    /\ UNCHANGED lastWrite

SnapshotRequestBuilder_snapshot(v) ==
    /\ builder.kind = "snapshot"
    /\ builder' = [builder EXCEPT !.snapshot = Some(v)]
    /\ SetterFrame("builder.snapshot")
    /\ UNCHANGED lastWrite

SnapshotRequestBuilder_recursive(v) ==
    /\ builder.kind = "snapshot"
    /\ builder' = [builder EXCEPT !.recursive = Some(v)]
    /\ SetterFrame("builder.recursive")
    /\ UNCHANGED lastWrite

ListRequestBuilder_root(v) ==
    /\ builder.kind = "list"
    /\ builder' = [builder EXCEPT !.root = Some(v)]
    /\ SetterFrame("builder.root")
    /\ UNCHANGED lastWrite

ListRequestBuilder_recursion_depth(v) ==
    /\ builder.kind = "list"
    /\ builder' = [builder EXCEPT !.recursion_depth = Some(v)]
    /\ SetterFrame("builder.recursion_depth")
    /\ UNCHANGED lastWrite

ListRequestBuilder_recursive(v) ==
    /\ builder.kind = "list"
    /\ builder' = [builder EXCEPT !.recursive = Some(v)]
    /\ SetterFrame("builder.recursive")
    /\ UNCHANGED lastWrite

\* the four add_property methods have the same body
add_property(key, value) ==
    /\ builder' = [builder EXCEPT !.properties = AddPropertyTo(builder.properties, key, value)]
    /\ lastWrite' = [k \in DOMAIN lastWrite \cup {key} |->
                        IF k = key THEN value ELSE lastWrite[k]]
    /\ SetterFrame("builder.add_property")

AddListOptionTo(list_types, opt) ==
    IF list_types.tag = "Some" THEN Some(Append(list_types.val, opt)) ELSE Some(<<opt>>)

ListRequestBuilder_add_list_option(opt) ==
    /\ builder.kind = "list"
    /\ \/ builder.list_types.tag = "None"
       \/ builder.list_types.tag = "Some" /\ Len(builder.list_types.val) < MaxTypes
    /\ builder' = [builder EXCEPT !.list_types = AddListOptionTo(builder.list_types, opt)]
    /\ SetterFrame("builder.add_list_option")
    /\ UNCHANGED lastWrite

\* build() on the builder the caller holds; no external tool is involved
build ==
    /\ built' = BuildOf(builder)
    /\ builder' = BuildSelf(builder)
    /\ lastOp' = "build"
    /\ invoked' = << >>
    /\ proc' = None
    /\ ret' = NoRet
    /\ UNCHANGED <<handle, lastWrite>>

---------------------------------------------------------------------------
(* The process boundary: zfs(zfs_cmd, args) of the non-test build.         *)

\* bytes the child process writes: 'a', ' ', '\n' and 0xFF, which no UTF-8
\* encoding contains (the alphabet has no other byte above 0x7F)
OutBytes == { 97, 32, 10, 255 }

AsciiChar(b) ==
    CASE b = 97 -> "a"
      [] b = 32 -> " "
      [] b = 10 -> "\n"

\* String::from_utf8 on sequences over OutBytes
FromUtf8(bytes) ==
    IF \E i \in 1..Len(bytes) : bytes[i] >= 128
    THEN Err(FromUtf8Error)
    ELSE Ok([i \in 1..Len(bytes) |-> AsciiChar(bytes[i])])

\* all sequences over S of length at most n
SeqsUpTo(S, n) == UNION { [1..k -> S] : k \in 0..n }

SpawnFailed == [spawned |-> FALSE]
Exited(status, stdout, stderr) ==
    [spawned |-> TRUE, status |-> status, stdout |-> stdout, stderr |-> stderr]

\* what the child process may do, with every standard output up to MaxOut bytes
RichOutcomes ==
    {SpawnFailed}
    \cup { Exited(0, out, <<97>>) : out \in SeqsUpTo(OutBytes, MaxOut) }
    \cup { Exited(1, <<97, 10>>, err) : err \in { << >>, <<97>>, <<32, 97, 10>>, <<255>> } }

\* one outcome of every kind, for the operations that ignore standard output
SmallOutcomes ==
    {SpawnFailed}
    \cup { Exited(st, out, err) : st \in {0, 1}, out \in { <<97, 10>>, <<255>> },
                                   err \in { <<32, 97, 10>>, <<255>> } }

\* the subcommand zfs() passes first
Subcommand(zfs_cmd) ==
    CASE zfs_cmd = "Create" -> "create"
      [] zfs_cmd = "Clone" -> "clone"
      [] zfs_cmd = "Destroy" -> "destroy"
      [] zfs_cmd = "Promote" -> "promote"
      [] zfs_cmd = "List" -> "list"
      [] zfs_cmd = "Open" -> "list"
      [] zfs_cmd = "Set" -> "set"
      [] zfs_cmd = "Get" -> "get"
      [] zfs_cmd = "Snapshot" -> "snapshot"

\* the command line one call of zfs() runs
Invocation(zfs_cmd, args) == [cmd |-> Subcommand(zfs_cmd), args |-> args]

ZfsResultLossy(o) ==
    IF ~o.spawned THEN Err(IOError)
    ELSE IF o.status # 0
    THEN LET e == FromUtf8(o.stderr)
         IN  IF e.tag = "Err" THEN Err(ZFSError(<< >>)) ELSE Err(ZFSError(e.val))
    ELSE FromUtf8(o.stdout)

\* what zfs() returns when the child process did o
ZfsResult(o) ==
    IF ~o.spawned THEN Err(IOError)
    ELSE IF o.status # 0
    THEN LET e == FromUtf8(o.stderr)
         IN  IF e.tag = "Err" THEN e ELSE Err(ZFSError(e.val))
    ELSE FromUtf8(o.stdout)

---------------------------------------------------------------------------
(* The argument serializers.                                               *)

\* for p in props { args.push("-o"); args.push(p) }
RECURSIVE PropArgs(_)
PropArgs(props) ==
    IF Len(props) = 0 THEN << >>
    ELSE <<FlagO, props[1]>> \o PropArgs(Tail(props))

CreateArgsVolumeFlagsAlways(req, order) ==
    (IF req.recursive THEN <<FlagP>> ELSE << >>)
    \o (IF req.sparse THEN <<FlagS>> ELSE << >>)
    \o (IF req.blocksize.tag = "Some"
        THEN <<FlagB, I32ToString(req.blocksize.val)>> ELSE << >>)
    \o PropArgs(ZfsPropertiesInto(req.properties, order))
    \o (IF req.volsize.tag = "Some" THEN <<FlagV, req.volsize.val>> ELSE << >>)
    \o <<req.name>>

\* the args create() passes
CreateArgs(req, order) ==
    (IF req.recursive THEN <<FlagP>> ELSE << >>)
    \o (IF req.volsize.tag = "Some"
        THEN (IF req.sparse THEN <<FlagS>> ELSE << >>)
             \o (IF req.blocksize.tag = "Some"
                 THEN <<FlagB, I32ToString(req.blocksize.val)>> ELSE << >>)
        ELSE << >>)
    \o PropArgs(ZfsPropertiesInto(req.properties, order))
    \o (IF req.volsize.tag = "Some" THEN <<FlagV, req.volsize.val>> ELSE << >>)
    \o <<req.name>>

\* the args clone() passes
CloneArgs(req, order) ==
    (IF req.create_parents THEN <<FlagP>> ELSE << >>)
    \o PropArgs(ZfsPropertiesInto(req.properties, order))
    \o <<req.snapshot, req.target>>

\* the args snapshot() passes
SnapshotArgs(req, order) ==
    (IF req.recursive THEN <<FlagR>> ELSE << >>)
    \o PropArgs(ZfsPropertiesInto(req.properties, order))
    \o <<req.snapshot>>

ListArgsDepthAlways(req, order) ==
    (IF req.recursive THEN <<FlagR>> ELSE << >>)
    \o (IF req.recursion_depth.tag = "Some"
        THEN <<FlagD, req.recursion_depth.val>> ELSE << >>)
    \o <<FlagHp>>
    \o PropArgs(ZfsPropertiesInto(req.properties, order))
    \o (IF Len(req.list_types) > 0
        THEN <<FlagT, Join([i \in 1..Len(req.list_types) |-> ListTypeInto(req.list_types[i])],
                           <<",">>)>>
        ELSE << >>)
    \o (IF req.root.tag = "Some" THEN <<req.root.val>> ELSE << >>)

\* the args list() passes
ListArgs(req, order) ==
    (IF req.recursive
     THEN <<FlagR>> \o (IF req.recursion_depth.tag = "Some"
                        THEN <<FlagD, req.recursion_depth.val>> ELSE << >>)
     ELSE << >>)
    \o <<FlagHp>>
    \o PropArgs(ZfsPropertiesInto(req.properties, order))
    \o (IF Len(req.list_types) > 0
        THEN <<FlagT, Join([i \in 1..Len(req.list_types) |-> ListTypeInto(req.list_types[i])],
                           <<",">>)>>
        ELSE << >>)
    \o (IF req.root.tag = "Some" THEN <<req.root.val>> ELSE << >>)

---------------------------------------------------------------------------
(* The output parser of list(): str::lines, then str::split_whitespace.    *)

\* char::is_whitespace, on the characters of the model
IsWhitespace(c) == c \in { " ", "\n", "\t", "\r" }

\* index of the first c in s, 0 when there is none
IndexOf(s, c) ==
    IF Contains(s, c) THEN CHOOSE i \in 1..Len(s) : s[i] = c /\ \A j \in 1..(i - 1) : s[j] # c
    ELSE 0

\* str::lines: the text is cut after every '\n'; the terminator is not part
\* of a line, and a text that ends in '\n' has no further, empty, line
\* (the model's alphabet has no '\r', which lines() strips before a '\n')
RECURSIVE Lines(_)
Lines(s) ==
    IF Len(s) = 0 THEN << >>
    ELSE LET i == IndexOf(s, "\n")
         IN  IF i = 0 THEN <<s>>
             ELSE <<SubSeq(s, 1, i - 1)>> \o Lines(SubSeq(s, i + 1, Len(s)))

\* length of the longest prefix of s whose characters are (are not) whitespace
RECURSIVE Run(_, _)
Run(s, ws) ==
    IF Len(s) = 0 \/ IsWhitespace(s[1]) # ws THEN 0 ELSE 1 + Run(Tail(s), ws)

\* str::split_whitespace: the maximal runs of non-whitespace characters
RECURSIVE SplitWhitespace(_)
SplitWhitespace(l) ==
    LET skip == Run(l, TRUE)
        rest == SubSeq(l, skip + 1, Len(l))
        n == Run(rest, FALSE)
    IN  IF n = 0 THEN << >>
        ELSE <<SubSeq(rest, 1, n)>> \o SplitWhitespace(SubSeq(rest, n + 1, Len(rest)))

\* the closure list() maps over the decoded standard output
ListParse(v) == [i \in 1..Len(Lines(v)) |-> SplitWhitespace(Lines(v)[i])]

---------------------------------------------------------------------------
(* The public operations, as functions of their inputs and of what the     *)
(* child process does: the invocations made and the value returned.        *)

Dataset(name) == [type |-> "Dataset", name |-> name]
Snapshot(name) == [type |-> "Snapshot", name |-> name]

\* one call of zfs(), its Ok value mapped by the caller
Called(zfs_cmd, args, result) == [calls |-> <<Invocation(zfs_cmd, args)>>, ret |-> result]

\* Result::map with a closure that ignores the value
MapTo(r, v) == IF r.tag = "Ok" THEN Ok(v) ELSE r

CreateFn(req, order, o) ==
    Called("Create", CreateArgs(req, order), MapTo(ZfsResult(o), Dataset(req.name)))

CloneFn(req, order, o) ==
    Called("Clone", CloneArgs(req, order), MapTo(ZfsResult(o), Dataset(req.target)))

SnapshotFn(req, order, o) ==
    Called("Snapshot", SnapshotArgs(req, order), MapTo(ZfsResult(o), Snapshot(req.snapshot)))

ListFn(req, order, o) ==
    LET r == ZfsResult(o)
    IN  Called("List", ListArgs(req, order),
               IF r.tag = "Ok" THEN Ok(ListParse(r.val)) ELSE r)

OpenFn(name, o) ==
    LET r == ZfsResult(o)
    IN  Called("Open", << <<"-", "H", "o">>, <<"n", "a", "m", "e">>, name >>,
               IF r.tag = "Ok" THEN Ok(Dataset(r.val)) ELSE r)

\* Dataset::get and Snapshot::get
GetFn(self, name, o) ==
    Called("Get", << <<"-", "H">>, FlagO, <<"v", "a", "l", "u", "e">>, name, self.name >>,
           ZfsResult(o))

\* Dataset::set and Snapshot::set
SetFn(self, name, value, o) ==
    Called("Set", << FormatKV(name, value), self.name >>, MapTo(ZfsResult(o), "unit"))

PromoteFn(self, o) ==
    Called("Promote", << self.name >>, MapTo(ZfsResult(o), Dataset(self.name)))

\* Dataset::destroy and Snapshot::destroy
DestroyFn(self, o) ==
    Called("Destroy", << self.name >>, MapTo(ZfsResult(o), "unit"))

\* Dataset::snapshot: build the request for "<self.name>@<name>", then snapshot()
DatasetSnapshotFn(self, name, o) ==
    LET b == [SnapshotRequestBuilderDefault EXCEPT
                 !.snapshot = Some(self.name \o <<"@">> \o name)]
        req == SnapshotRequestBuilderBuild(b)
    IN  IF req.tag = "Err"
        THEN [calls |-> << >>, ret |-> Err(ZfsBuilderError(req.err))]
        ELSE SnapshotFn(req.val, << >>, o)

---------------------------------------------------------------------------
(* The public operations as steps of the caller.                           *)

\* the caller runs an operation: res is what it did, o what the process did
Ran(op, res, o) ==
    /\ lastOp' = op
    /\ invoked' = res.calls
    /\ proc' = IF Len(res.calls) = 0 THEN None ELSE Some(o)
    /\ ret' = res.ret
    /\ handle' = IF res.ret.tag = "Ok" /\ op \in {"create", "clone", "snapshot", "open",
                                                  "promote", "Dataset::snapshot"}
                 THEN Some(res.ret.val) ELSE handle
    /\ UNCHANGED <<builder, built, lastWrite>>

create(outs) ==
    /\ built.tag = "Ok" /\ built.val.kind = "create"
    /\ \E order \in Orders(DOMAIN built.val.properties), o \in outs :
          Ran("create", CreateFn(built.val, order, o), o)

clone(outs) ==
    /\ built.tag = "Ok" /\ built.val.kind = "clone"
    /\ \E order \in Orders(DOMAIN built.val.properties), o \in outs :
          Ran("clone", CloneFn(built.val, order, o), o)

snapshot(outs) ==
    /\ built.tag = "Ok" /\ built.val.kind = "snapshot"
    /\ \E order \in Orders(DOMAIN built.val.properties), o \in outs :
          Ran("snapshot", SnapshotFn(built.val, order, o), o)

list(outs) ==
    /\ built.tag = "Ok" /\ built.val.kind = "list"
    /\ \E order \in Orders(DOMAIN built.val.properties), o \in outs :
          Ran("list", ListFn(built.val, order, o), o)

open(name, outs) ==
    \E o \in outs : Ran("open", OpenFn(name, o), o)

Dataset_get(name, outs) ==
    /\ handle.tag = "Some" /\ handle.val.type = "Dataset"
    /\ \E o \in outs : Ran("get", GetFn(handle.val, name, o), o)

Dataset_set(name, value, outs) ==
    /\ handle.tag = "Some" /\ handle.val.type = "Dataset"
    /\ \E o \in outs : Ran("set", SetFn(handle.val, name, value, o), o)

Dataset_promote(outs) ==
    /\ handle.tag = "Some" /\ handle.val.type = "Dataset"
    /\ \E o \in outs : Ran("promote", PromoteFn(handle.val, o), o)

Dataset_destroy(outs) ==
    /\ handle.tag = "Some" /\ handle.val.type = "Dataset"
    /\ \E o \in outs : Ran("destroy", DestroyFn(handle.val, o), o)

Dataset_snapshot(name, outs) ==
    /\ handle.tag = "Some" /\ handle.val.type = "Dataset"
    /\ \E o \in outs : Ran("Dataset::snapshot", DatasetSnapshotFn(handle.val, name, o), o)

Snapshot_get(name, outs) ==
    /\ handle.tag = "Some" /\ handle.val.type = "Snapshot"
    /\ \E o \in outs : Ran("get", GetFn(handle.val, name, o), o)

Snapshot_set(name, value, outs) ==
    /\ handle.tag = "Some" /\ handle.val.type = "Snapshot"
    /\ \E o \in outs : Ran("set", SetFn(handle.val, name, value, o), o)

Snapshot_destroy(outs) ==
    /\ handle.tag = "Some" /\ handle.val.type = "Snapshot"
    /\ \E o \in outs : Ran("destroy", DestroyFn(handle.val, o), o)

---------------------------------------------------------------------------
(* Spec: a caller either fills one builder, builds once and submits the    *)
(* request (as the tests of lib.rs do), or opens a dataset by name and     *)
(* works on the handle.                                                    *)

Init ==
    /\ \E kind \in BuilderKinds : builder = BuilderDefault(kind)
    /\ built = NotBuilt
    /\ handle = None
    /\ lastOp = "new"
    /\ invoked = << >>
    /\ proc = None
    /\ ret = NoRet
    /\ lastWrite = << >>

\* the builder is still being filled: nothing built, nothing run
Filling == built = NotBuilt /\ ret = NoRet

\* the builder was never touched
Untouched == builder = BuilderDefault(builder.kind) /\ built = NotBuilt

Next ==
    \/ Filling /\ \E v \in Names : CreateRequestBuilder_name(v)
    \/ Filling /\ \E v \in BOOLEAN : CreateRequestBuilder_recursive(v)
    \/ Filling /\ \E v \in VolSizes : CreateRequestBuilder_volsize(v)
    \/ Filling /\ \E v \in BlockSizes : CreateRequestBuilder_blocksize(v)
    \/ Filling /\ \E v \in BOOLEAN : CreateRequestBuilder_sparse(v)
    \/ Filling /\ \E v \in Names : CloneRequestBuilder_snapshot(v)
    \/ Filling /\ \E v \in Names : CloneRequestBuilder_target(v)
    \/ Filling /\ \E v \in BOOLEAN : CloneRequestBuilder_create_parents(v)
    \/ Filling /\ \E v \in Names : SnapshotRequestBuilder_snapshot(v)
    \/ Filling /\ \E v \in BOOLEAN : SnapshotRequestBuilder_recursive(v)
    \/ Filling /\ \E v \in Names : ListRequestBuilder_root(v)
    \/ Filling /\ \E v \in Depths : ListRequestBuilder_recursion_depth(v)
    \/ Filling /\ \E v \in BOOLEAN : ListRequestBuilder_recursive(v)
    \/ Filling /\ \E k \in PropKeys, v \in PropVals : add_property(k, v)
    \/ Filling /\ \E t \in ListTypeInputs : ListRequestBuilder_add_list_option(t)
    \/ Filling /\ build
    \/ create(SmallOutcomes)
    \/ clone(SmallOutcomes)
    \/ snapshot(SmallOutcomes)
    \/ list(SmallOutcomes)
    \/ Untouched /\ handle = None /\ \E n \in Names : open(n, SmallOutcomes)
    \/ Untouched /\ \E n \in PropKeys : Dataset_get(n, SmallOutcomes)
    \/ Untouched /\ \E n \in PropKeys, v \in PropVals : Dataset_set(n, v, SmallOutcomes)
    \/ Untouched /\ Dataset_promote(SmallOutcomes)
    \/ Untouched /\ Dataset_destroy(SmallOutcomes)
    \/ Untouched /\ \E n \in Suffixes : Dataset_snapshot(n, SmallOutcomes)
    \/ Untouched /\ \E n \in PropKeys : Snapshot_get(n, SmallOutcomes)
    \/ Untouched /\ \E n \in PropKeys, v \in PropVals : Snapshot_set(n, v, SmallOutcomes)
    \/ Untouched /\ Snapshot_destroy(SmallOutcomes)

Spec == Init /\ [][Next]_vars

---------------------------------------------------------------------------
(* SpecReuse: a caller that keeps one builder and one built request, and   *)
(* goes on setting fields and building in any order.                       *)

NextReuse ==
    \/ \E v \in Names : CreateRequestBuilder_name(v)
    \/ \E v \in VolSizes : CreateRequestBuilder_volsize(v)
    \/ \E v \in Names : CloneRequestBuilder_snapshot(v)
    \/ \E v \in Names : CloneRequestBuilder_target(v)
    \/ \E v \in BOOLEAN : CloneRequestBuilder_create_parents(v)
    \/ \E v \in Names : SnapshotRequestBuilder_snapshot(v)
    \/ \E v \in BOOLEAN : SnapshotRequestBuilder_recursive(v)
    \/ \E k \in PropKeys, v \in PropVals : add_property(k, v)
    \/ \E t \in ListTypeInputs : ListRequestBuilder_add_list_option(t)
    \/ build

SpecReuse == Init /\ [][NextReuse]_vars

---------------------------------------------------------------------------
(* SpecOutput: the operations that return what the tool printed (list,     *)
(* open, get), against every standard output of up to MaxOut bytes.        *)

InitOutput ==
    /\ builder = ListRequestBuilderDefault
    /\ built = NotBuilt
    /\ handle = None
    /\ lastOp = "new"
    /\ invoked = << >>
    /\ proc = None
    /\ ret = NoRet
    /\ lastWrite = << >>

NextOutput ==
    \/ Filling /\ build
    \/ list(RichOutcomes)
    \/ Untouched /\ handle = None /\ open(<<"a">>, RichOutcomes)
    \/ Untouched /\ Dataset_get(<<"k">>, RichOutcomes)
    \/ Untouched /\ Dataset_snapshot(<<"s">>, SmallOutcomes)
    \/ Untouched /\ Snapshot_get(<<"k">>, RichOutcomes)

SpecOutput == InitOutput /\ [][NextOutput]_vars

---------------------------------------------------------------------------
(* Vocabulary of the properties below.                                     *)

\* the required fields of each request, in declaration order
RequiredFields(kind) ==
    CASE kind = "create" -> <<"name">>
      [] kind = "clone" -> <<"snapshot", "target">>
      [] kind = "snapshot" -> <<"snapshot">>
      [] kind = "list" -> << >>

\* the required fields of builder b that were never set, in declaration order
MissingFields(b) ==
    SelectSeq(RequiredFields(b.kind), LAMBDA f : b[f].tag = "None")

HasAt(s) == \E i \in DOMAIN s : s[i] = "@"

\* a field of b that was set and breaks the '@' rule of its request
BreaksAtRule(b) ==
    \/ b.kind = "create" /\ b.name.tag = "Some" /\ HasAt(b.name.val)
    \/ b.kind = "clone" /\ b.target.tag = "Some" /\ HasAt(b.target.val)
    \/ b.kind = "clone" /\ b.snapshot.tag = "Some" /\ ~HasAt(b.snapshot.val)
    \/ b.kind = "snapshot" /\ b.snapshot.tag = "Some" /\ ~HasAt(b.snapshot.val)

\* build() has run on the builder as it is now
BuildRan == built # NotBuilt

IsBuilderError(e) == e.kind \in {"UninitializedField", "ValidationError"}

\* the arguments of the one invocation the last operation made
Args == invoked[1].args

\* how often token t occurs in the argument sequence a
Count(a, t) == Cardinality({ i \in DOMAIN a : a[i] = t })

---------------------------------------------------------------------------
(* C1 *)

---------------------------------------------------------------------------
(* C2 *)

\* C2: build() of a CloneRequestBuilder succeeds if and only if snapshot and
\* target were both set, the final snapshot contains '@' and the final target
\* does not; the request then carries those final values, and in every other
\* case build() returns a builder error and no request.
C2_CloneBuildIff ==
    (BuildRan /\ builder.kind = "clone") =>
        LET good == /\ builder.snapshot.tag = "Some"
                    /\ builder.target.tag = "Some"
                    /\ HasAt(builder.snapshot.val)
                    /\ ~HasAt(builder.target.val)
        IN  /\ (built.tag = "Ok") <=> good
            /\ good => /\ built.val.snapshot = builder.snapshot.val
                       /\ built.val.target = builder.target.val
            /\ ~good => built.tag = "Err" /\ IsBuilderError(built.err)

\* C2 witness: a Clone builder was built successfully and the request cloned.
C2_Witness ==
    /\ builder.kind = "clone"
    /\ built.tag = "Ok"
    /\ lastOp = "clone"
    /\ Len(invoked) = 1

---------------------------------------------------------------------------
(* C3 *)

\* C3: build() of a Create builder whose name contains '@' fails with
\* ValidationError and the external tool is not invoked; every public
\* operation invokes the external tool at most once, and not at all when
\* builder validation failed.
C3_NoInvocationAfterValidationFailure ==
    /\ Len(invoked) <= 1
    /\ (BuildRan /\ builder.kind = "create" /\ builder.name.tag = "Some"
            /\ HasAt(builder.name.val)) =>
          /\ built.tag = "Err" /\ built.err.kind = "ValidationError"
          /\ invoked = << >>
    /\ built.tag = "Err" => invoked = << >>
    /\ (ret.tag = "Err" /\ ret.err.kind = "ZfsBuilderError") => invoked = << >>

\* C3 witness: a Create builder named "a@s" was built.
C3_Witness ==
    /\ BuildRan
    /\ builder.kind = "create"
    /\ builder.name.tag = "Some" /\ HasAt(builder.name.val)
    /\ lastOp = "build"

---------------------------------------------------------------------------
(* C4 *)

\* the '-o' pairs of a property map, one per key, keys taken in the given order
OPairs(m, order) ==
    IF Len(order) = 0 THEN << >>
    ELSE IF Len(order) = 1 THEN <<FlagO, order[1] \o <<"=">> \o m[order[1]]>>
    ELSE <<FlagO, order[1] \o <<"=">> \o m[order[1]],
           FlagO, order[2] \o <<"=">> \o m[order[2]]>>

\* the decimal text of the block sizes the callers pass
BlockSizeText(n) ==
    CASE n = 512 -> <<"5", "1", "2">>
      [] n = -8 -> <<"-", "8">>

\* C4: create() passes exactly: '-p' iff recursive; only when volsize is set,
\* '-s' iff sparse and '-b <blocksize>' iff blocksize is set; one '-o k=v' pair
\* per property; '-V <volsize>' iff volsize is set; the name last.  Without
\* volsize neither '-s' nor '-b' appears, every '-o' precedes '-V', a request
\* with only a name gives [name], and on success the Dataset has the
\* request's name.
C4_CreateArgs ==
    (lastOp = "create") =>
        LET req == built.val
            vol == req.volsize.tag = "Some"
        IN  /\ Len(invoked) = 1
            /\ invoked[1].cmd = "create"
            /\ \E order \in Orders(DOMAIN req.properties) :
                  Args = (IF req.recursive THEN <<FlagP>> ELSE << >>)
                         \o (IF vol /\ req.sparse THEN <<FlagS>> ELSE << >>)
                         \o (IF vol /\ req.blocksize.tag = "Some"
                             THEN <<FlagB, BlockSizeText(req.blocksize.val)>> ELSE << >>)
                         \o OPairs(req.properties, order)
                         \o (IF vol THEN <<FlagV, req.volsize.val>> ELSE << >>)
                         \o <<req.name>>
            /\ ~vol => Count(Args, FlagS) = 0 /\ Count(Args, FlagB) = 0
            /\ \A i, j \in DOMAIN Args : (Args[i] = FlagO /\ Args[j] = FlagV) => i < j
            /\ Args[Len(Args)] = req.name
            /\ (builder = [CreateRequestBuilderDefault EXCEPT !.name = Some(req.name)])
                  => Args = <<req.name>>
            /\ ret.tag = "Ok" => ret.val = Dataset(req.name)

\* C4 witness: create() ran on a request with sparse and blocksize set but no
\* volsize, and succeeded.
C4_Witness ==
    /\ lastOp = "create"
    /\ built.val.sparse
    /\ built.val.blocksize.tag = "Some"
    /\ built.val.volsize.tag = "None"
    /\ DOMAIN built.val.properties # {}
    /\ ret.tag = "Ok"

---------------------------------------------------------------------------
(* C5 *)

\* the type tokens joined with commas, built from the last one backwards
RECURSIVE CommaJoined(_)
CommaJoined(types) ==
    IF Len(types) = 1 THEN ListTypeInto(types[1])
    ELSE CommaJoined(SubSeq(types, 1, Len(types) - 1))
         \o <<",">> \o ListTypeInto(types[Len(types)])

\* C5: list() passes '-Hp' exactly once whatever the fields; '-d <depth>' only
\* right after '-r' and only when recursive is true; '-t' iff list_types is
\* non-empty, followed by one token, the comma-join of the type tokens in the
\* order of the add_list_option calls; root, when set, last.
C5_ListArgs ==
    (lastOp = "list") =>
        LET req == built.val
            types == IF builder.list_types.tag = "Some" THEN builder.list_types.val ELSE << >>
        IN  /\ Len(invoked) = 1
            /\ invoked[1].cmd = "list"
            /\ Count(Args, FlagHp) = 1
            /\ \A i \in DOMAIN Args :
                  Args[i] = FlagD =>
                      /\ req.recursive
                      /\ i > 1 /\ Args[i - 1] = FlagR
                      /\ i < Len(Args) /\ Args[i + 1] = req.recursion_depth.val
            /\ ~req.recursive => Count(Args, FlagD) = 0 /\ Count(Args, FlagR) = 0
            /\ (req.recursive /\ req.recursion_depth.tag = "Some") => Count(Args, FlagD) = 1
            /\ (Count(Args, FlagT) > 0) <=> (Len(types) > 0)
            /\ Count(Args, FlagT) <= 1
            /\ \A i \in DOMAIN Args :
                  Args[i] = FlagT => i < Len(Args) /\ Args[i + 1] = CommaJoined(types)
            /\ Len(types) > 0 => Count(Args, CommaJoined(types)) = 1
            /\ req.root.tag = "Some" => Args[Len(Args)] = req.root.val

\* C5 witness: list() ran on a request with a recursion depth, recursive
\* false, two list types and a root.
C5_Witness ==
    /\ lastOp = "list"
    /\ ~built.val.recursive
    /\ built.val.recursion_depth.tag = "Some"
    /\ built.val.list_types = <<"Snapshot", "FileSystem">>
    /\ built.val.root.tag = "Some"

---------------------------------------------------------------------------
(* C9 *)

\* C9: after any add_property calls the builder's property map, and the map of
\* the request built from it, hold exactly one entry per key used, with the
\* value of the last call for that key; the serializers emit exactly one
\* '-o key=value' pair per key, with that value.
C9_LastWriteWins ==
    LET used == DOMAIN lastWrite
    IN  /\ (builder.properties.tag = "None") <=> (used = {})
        /\ builder.properties.tag = "Some" =>
              /\ DOMAIN builder.properties.val = used
              /\ \A k \in used : builder.properties.val[k] = lastWrite[k]
        /\ built.tag = "Ok" =>
              /\ DOMAIN built.val.properties = used
              /\ \A k \in used : built.val.properties[k] = lastWrite[k]
        /\ lastOp \in {"create", "clone", "snapshot", "list"} =>
              /\ Count(Args, FlagO) = Cardinality(used)
              /\ \A k \in used :
                    Cardinality({ i \in DOMAIN Args :
                        /\ i > 1
                        /\ Args[i - 1] = FlagO
                        /\ Args[i] = k \o <<"=">> \o lastWrite[k] }) = 1
              /\ \A i \in DOMAIN Args :
                    Args[i] = FlagO =>
                        \E k \in used : Args[i + 1] = k \o <<"=">> \o lastWrite[k]

\* C9 witness: a request with two properties, the last value written for "k"
\* being "2", was serialized by snapshot().
C9_Witness ==
    /\ lastOp = "snapshot"
    /\ DOMAIN lastWrite = PropKeys
    /\ lastWrite[<<"k">>] = <<"2">>
    /\ Count(Args, FlagO) = 2

---------------------------------------------------------------------------
(* C6 *)

Blank(c) == c \in { " ", "\n" }

\* s without its leading and trailing whitespace
TrimText(s) ==
    LET keep == { i \in DOMAIN s : ~Blank(s[i]) }
    IN  IF keep = {} THEN << >>
        ELSE SubSeq(s, CHOOSE i \in keep : \A j \in keep : i <= j,
                       CHOOSE i \in keep : \A j \in keep : j <= i)

\* the text the child process wrote to standard output, when it is valid
StdoutText == FromUtf8(proc.val.stdout).val

\* C6: open() returns a Dataset named by the standard output with leading and
\* trailing whitespace removed, and Dataset::get / Snapshot::get return the
\* trimmed standard output.
C6_ScalarTrimmed ==
    /\ (lastOp = "open" /\ ret.tag = "Ok") => ret.val = Dataset(TrimText(StdoutText))
    /\ (lastOp = "get" /\ ret.tag = "Ok") => ret.val = TrimText(StdoutText)

---------------------------------------------------------------------------
(* C7 *)

\* C7: the result of a successful list() has one record per line, in order,
\* each made of the line's non-empty whitespace-separated fields, and has no
\* empty record: not at the end, not anywhere, also when the output ends in
\* several newlines or has only blank lines.
C7_NoEmptyRecord ==
    (lastOp = "list" /\ ret.tag = "Ok") =>
        /\ \A i \in DOMAIN ret.val :
              /\ Len(ret.val[i]) > 0
              /\ \A j \in DOMAIN ret.val[i] :
                    /\ Len(ret.val[i][j]) > 0
                    /\ \A n \in DOMAIN ret.val[i][j] : ~Blank(ret.val[i][j][n])
        /\ Len(ret.val) <= Count(StdoutText, "\n") + 1

---------------------------------------------------------------------------
(* C8 *)

ValidBytes(bytes) == \A i \in DOMAIN bytes : bytes[i] \in {97, 32, 10}

\* C8: every invocation ends in exactly one of: exit status zero and the
\* value derived from the decoded standard output; non-zero exit status and
\* ZFSError with the standard-error text verbatim; an I/O or a decoding
\* error.  A non-zero exit gives no value or handle, and a decoding failure is
\* never a ZFSError.
C8_InvocationOutcome ==
    (proc.tag = "Some") =>
        LET o == proc.val
        IN  /\ Len(invoked) = 1
            /\ ~o.spawned => ret = Err(IOError)
            /\ (o.spawned /\ o.status = 0 /\ ValidBytes(o.stdout)) =>
                  /\ ret.tag = "Ok"
                  /\ lastOp = "get" =>
                        /\ Len(ret.val) = Len(o.stdout)
                        /\ \A i \in DOMAIN o.stdout : ret.val[i] = AsciiChar(o.stdout[i])
                  /\ lastOp = "open" => Len(ret.val.name) = Len(o.stdout)
            /\ (o.spawned /\ o.status = 0 /\ ~ValidBytes(o.stdout)) =>
                  ret = Err(FromUtf8Error)
            /\ (o.spawned /\ o.status # 0 /\ ValidBytes(o.stderr)) =>
                  /\ ret.tag = "Err" /\ ret.err.kind = "ZFSError"
                  /\ Len(ret.err.text) = Len(o.stderr)
                  /\ \A i \in DOMAIN o.stderr : ret.err.text[i] = AsciiChar(o.stderr[i])
            /\ (o.spawned /\ o.status # 0 /\ ~ValidBytes(o.stderr)) =>
                  ret = Err(FromUtf8Error)
            /\ (o.spawned /\ o.status # 0) => ret.tag = "Err"
            /\ (ret.tag = "Err" /\ ret.err.kind = "ZFSError") =>
                  o.spawned /\ o.status # 0 /\ ValidBytes(o.stderr)

\* C8 witness: the tool exited non-zero with " a\n" on standard error and the
\* operation returned ZFSError with exactly that text.
C8_Witness ==
    /\ proc.tag = "Some"
    /\ proc.val.spawned
    /\ proc.val.status # 0
    /\ proc.val.stderr = <<32, 97, 10>>
    /\ ret = Err(ZFSError(<<" ", "a", "\n">>))

---------------------------------------------------------------------------
(* C10 *)

\* C10: build() leaves every builder field as it was, whether it succeeds or
\* fails; build() right after build() returns the same; a request already
\* built stays as it is through later setter and add_property calls.
C10_BuildReadOnly ==
    [][ /\ lastOp' = "build" => builder' = builder
        /\ (lastOp = "build" /\ lastOp' = "build") => built' = built
        /\ lastOp' # "build" => built' = built ]_vars

\* C10 witness: a request was built without properties or list types, the
\* builder then got some, and the request still has none.
C10_Witness ==
    /\ built.tag = "Ok"
    /\ built.val.properties = << >>
    /\ builder.properties.tag = "Some"
    /\ builder.kind = "list"
    /\ built.val.list_types = << >>
    /\ builder.list_types.tag = "Some"

====
